---- MODULE Spec2Model ----
(***************************************************************************)
(* Model of getRates (src/index.js): a command line script that reads a    *)
(* cached rate snapshot, falls back to one HTTP request, writes the raw    *)
(* response to the cache file and prints the EUR/AUD cross rates.          *)
(*                                                                         *)
(* Texts (file contents, response bodies, chunks) are sequences of tokens; *)
(* JSON.parse is modelled by ParseJSON over those tokens.  Rates are       *)
(* integers in an arbitrary common unit: only their ratio is ever used.    *)
(* A toFixed(4) string is modelled by the integer number of 1/10000 it     *)
(* denotes.                                                                *)
(***************************************************************************)
EXTENDS Integers, Sequences, FiniteSets, TLC

VARIABLES
    pc,          \* position of the run: start, done, requested, receiving, ended, crashed
    now,         \* the value Date.now() returns (ms)
    cache,       \* currentRates.json: [exists, text]
    cache0,      \* currentRates.json as it was when the run started
    cred,        \* api_key.txt: [exists, lead, core, trail]
    requests,    \* number of http.request calls made
    out,         \* what was printed with console.log / console.error, in order
    calls,       \* the calls of showResult made so far, in order
    httpResult,  \* the httpResult string of httpCallback
    remaining,   \* the part of the response body the network has not delivered yet
    received,    \* the chunks delivered by 'data' events, in arrival order
    parsed,      \* the argument of JSON.parse in the 'end' handler: [done, text]
    write        \* the fs.writeFile call of the 'end' handler: [state, text]

vars == <<pc, now, cache, cache0, cred, requests, out, calls, httpResult,
          remaining, received, parsed, write>>

----------------------------------------------------------------------------
(* Bounds and program constants *)

MaxPad == 1

KeyLen == 32

Scale == 10000

HourMs == 1000 * 60 * 60

HighEurAud == 15000

HighAudEur == 7000

----------------------------------------------------------------------------
(* Tokens and texts *)

Tok(k, v) == [k |-> k, v |-> v]

LB == Tok("{", 0)

RB == Tok("}", 0)

RatesOpen == Tok("rates{", 0)

TsTok(n) == Tok("timestamp", n)

ErrTok(n) == Tok("error", n)

AudTok(n) == Tok("AUD", n)

EurTok(n) == Tok("EUR", n)

NoObj ==
    [ok |-> FALSE, error |-> FALSE, hasTs |-> FALSE, timestamp |-> 0,
     hasRates |-> FALSE, hasAUD |-> FALSE, AUD |-> 0, hasEUR |-> FALSE, EUR |-> 0]

EmptyObj == [NoObj EXCEPT !.ok = TRUE]

(* One member token read at position i of s; st = [obj, inRates]. *)
ParseStep(st, tok) ==
    LET o == st.obj IN
    IF ~o.ok THEN st
    ELSE IF st.inRates THEN
        CASE tok.k = "AUD" -> [st EXCEPT !.obj = [o EXCEPT !.hasAUD = TRUE, !.AUD = tok.v]]
          [] tok.k = "EUR" -> [st EXCEPT !.obj = [o EXCEPT !.hasEUR = TRUE, !.EUR = tok.v]]
          [] tok.k = "}" -> [st EXCEPT !.inRates = FALSE]
          [] tok.k \in {"timestamp", "error"} -> st
          [] OTHER -> [st EXCEPT !.obj = NoObj]
    ELSE
        CASE tok.k = "timestamp" ->
                [st EXCEPT !.obj = [o EXCEPT !.hasTs = TRUE, !.timestamp = tok.v]]
          [] tok.k = "error" -> [st EXCEPT !.obj = [o EXCEPT !.error = (tok.v # 0)]]
          [] tok.k = "rates{" ->
                [obj |-> [o EXCEPT !.hasRates = TRUE, !.hasAUD = FALSE, !.AUD = 0,
                                   !.hasEUR = FALSE, !.EUR = 0],
                 inRates |-> TRUE]
          [] tok.k \in {"AUD", "EUR"} -> st
          [] OTHER -> [st EXCEPT !.obj = NoObj]

RECURSIVE ParseMembers(_, _, _)
ParseMembers(s, i, st) ==
    IF i > Len(s) THEN st
    ELSE ParseMembers(s, i + 1, ParseStep(st, s[i]))

(* JSON.parse: the object a text denotes, or NoObj (ok = FALSE) when it throws. *)
ParseJSON(text) ==
    IF Len(text) < 2 \/ text[1] # LB \/ text[Len(text)] # RB THEN NoObj
    ELSE LET st == ParseMembers(SubSeq(text, 2, Len(text) - 1), 1,
                                [obj |-> EmptyObj, inRates |-> FALSE])
         IN IF st.obj.ok /\ ~st.inRates THEN st.obj ELSE NoObj

----------------------------------------------------------------------------
(* Output records *)

(* A printed line: t is its kind, obj the object it reports; a and b are the *)
(* two toFixed(4) strings of a summary, ha and hb whether each blinks green. *)
NoNum == [kind |-> "none", v |-> 0]

Msg(t, obj) == [t |-> t, obj |-> obj, a |-> NoNum, b |-> NoNum, ha |-> FALSE, hb |-> FALSE]

Summary(obj, a, b, ha, hb) ==
    [t |-> "summary", obj |-> obj, a |-> a, b |-> b, ha |-> ha, hb |-> hb]

----------------------------------------------------------------------------
(* showResult *)

NaN == [kind |-> "NaN", num |-> 0, den |-> 1]

Infinity == [kind |-> "Infinity", num |-> 0, den |-> 1]

(* x / y for two properties of obj.rates; a missing property is undefined. *)
Ratio(hasX, x, hasY, y) ==
    IF ~hasX \/ ~hasY THEN NaN
    ELSE IF y = 0 THEN (IF x = 0 THEN NaN ELSE Infinity)
    ELSE [kind |-> "num", num |-> x, den |-> y]

(* 1 / r *)
Inverse(r) ==
    CASE r.kind = "NaN" -> NaN
      [] r.kind = "Infinity" -> [kind |-> "num", num |-> 0, den |-> 1]
      [] OTHER -> IF r.num = 0 THEN Infinity
                  ELSE [kind |-> "num", num |-> r.den, den |-> r.num]

(* r.toFixed(4), as the number of 1/Scale the string denotes (r >= 0). *)
ToFixed4(r) ==
    IF r.kind = "num" THEN [kind |-> "num", v |-> (2 * r.num * Scale + r.den) \div (2 * r.den)]
    ELSE [kind |-> r.kind, v |-> 0]

(* Mutant of Above: the comparison made inclusive. *)
AboveOrEqual(f, threshold) ==
    \/ f.kind = "Infinity"
    \/ f.kind = "num" /\ f.v >= threshold

(* (str > threshold): the string converted back to a number and compared. *)
Above(f, threshold) ==
    \/ f.kind = "Infinity"
    \/ f.kind = "num" /\ f.v > threshold

(* Mutant of RatesPresent: the EUR rate is not looked at. *)
RatesPresentAudOnly(obj) ==
    /\ obj.hasRates
    /\ obj.hasAUD /\ obj.AUD # 0

(* obj.rates && obj.rates.AUD && obj.rates.EUR *)
RatesPresent(obj) ==
    /\ obj.hasRates
    /\ obj.hasAUD /\ obj.AUD # 0
    /\ obj.hasEUR /\ obj.EUR # 0

(* showResult(obj): either it throws "Rates missing from data!" or it prints *)
(* one summary.                                                              *)
showResult(obj) ==
    IF ~RatesPresent(obj) THEN [threw |-> TRUE, line |-> Msg("ratesMissing", obj)]
    ELSE LET rateEurAud == Ratio(obj.hasRates /\ obj.hasAUD, obj.AUD,
                                 obj.hasRates /\ obj.hasEUR, obj.EUR)
             rateAudEur == Inverse(rateEurAud)
             a == ToFixed4(rateEurAud)
             b == ToFixed4(rateAudEur)
         IN [threw |-> FALSE,
             line |-> Summary(obj, a, b, Above(a, HighEurAud), Above(b, HighAudEur))]

----------------------------------------------------------------------------
(* The synchronous part of the script *)

(* Mutant of Fresh: the comparison reversed. *)
FreshReversed(obj, t) == obj.hasTs /\ obj.timestamp * 1000 < t - HourMs

(* dataFrom > anHourAgo; a missing timestamp gives NaN, which compares false. *)
Fresh(obj, t) == obj.hasTs /\ obj.timestamp * 1000 > t - HourMs

(* Mutant of CacheStep: a cache file that does not parse ends the run. *)
CacheStepFatalParse(file, t, legacy) ==
    IF ~file.exists THEN
        [hit |-> FALSE, calls |-> <<>>,
         out |-> << IF legacy THEN Msg("cacheMissing", NoObj) ELSE Msg("cacheError", NoObj) >>]
    ELSE LET obj == ParseJSON(file.text) IN
        IF ~obj.ok THEN
            [hit |-> TRUE, calls |-> <<>>, out |-> << Msg("cacheError", NoObj) >>]
        ELSE IF Fresh(obj, t) THEN
            LET r == showResult(obj) IN
            [hit |-> ~r.threw,
             calls |-> << [via |-> "cache", obj |-> obj] >>,
             out |-> << r.line >>]
        ELSE [hit |-> FALSE, calls |-> <<>>, out |-> <<>>]

(* Mutant of CacheStep: the error showResult throws is not caught, so the run *)
(* ends there.                                                                *)
CacheStepUncaught(file, t, legacy) ==
    IF ~file.exists THEN
        [hit |-> FALSE, calls |-> <<>>,
         out |-> << IF legacy THEN Msg("cacheMissing", NoObj) ELSE Msg("cacheError", NoObj) >>]
    ELSE LET obj == ParseJSON(file.text) IN
        IF ~obj.ok THEN
            [hit |-> FALSE, calls |-> <<>>, out |-> << Msg("cacheError", NoObj) >>]
        ELSE IF Fresh(obj, t) THEN
            LET r == showResult(obj) IN
            [hit |-> TRUE,
             calls |-> << [via |-> "cache", obj |-> obj] >>,
             out |-> << r.line >>]
        ELSE [hit |-> FALSE, calls |-> <<>>, out |-> <<>>]

(* The first try/catch: [hit, out, calls].  hit means the script returned.   *)
(* legacy: whether the runtime reports ENOENT with errno 34.                 *)
CacheStep(file, t, legacy) ==
    IF ~file.exists THEN
        [hit |-> FALSE, calls |-> <<>>,
         out |-> << IF legacy THEN Msg("cacheMissing", NoObj) ELSE Msg("cacheError", NoObj) >>]
    ELSE LET obj == ParseJSON(file.text) IN
        IF ~obj.ok THEN
            [hit |-> FALSE, calls |-> <<>>, out |-> << Msg("cacheError", NoObj) >>]
        ELSE IF Fresh(obj, t) THEN
            LET r == showResult(obj) IN
            [hit |-> ~r.threw,
             calls |-> << [via |-> "cache", obj |-> obj] >>,
             out |-> << r.line >>]
        ELSE [hit |-> FALSE, calls |-> <<>>, out |-> <<>>]

(* fs.readFileSync(apiKeyFile).trim() *)
Trim(file) == [file EXCEPT !.lead = 0, !.trail = 0]

StrLen(file) == file.lead + file.core + file.trail

(* Mutant of CredentialOK: the length is taken before trimming. *)
CredentialOKUntrimmed(file) ==
    /\ file.exists
    /\ StrLen(file) # 0 /\ StrLen(file) = KeyLen

(* Mutant of CredentialOK: any key of at least KeyLen characters passes. *)
CredentialOKAtLeast(file) ==
    /\ file.exists
    /\ LET apiKey == Trim(file) IN StrLen(apiKey) # 0 /\ StrLen(apiKey) >= KeyLen

(* The second try/catch did not throw. *)
CredentialOK(file) ==
    /\ file.exists
    /\ LET apiKey == Trim(file) IN StrLen(apiKey) # 0 /\ StrLen(apiKey) = KeyLen

NoWrite == [state |-> "none", text |-> <<>>]

Main ==
    /\ pc = "start"
    /\ \E legacy \in BOOLEAN :
        LET c == CacheStep(cache, now, legacy) IN
        /\ calls' = calls \o c.calls
        /\ IF c.hit THEN
              /\ out' = out \o c.out
              /\ pc' = "done"
              /\ requests' = requests
           ELSE IF ~CredentialOK(cred) THEN
              /\ out' = (out \o c.out) \o << Msg("credentialError", NoObj) >>
              /\ pc' = "done"
              /\ requests' = requests
           ELSE
              /\ out' = out \o c.out
              /\ pc' = "requested"
              /\ requests' = requests + 1
    /\ UNCHANGED <<now, cache, cache0, cred, httpResult, remaining, received, parsed, write>>

----------------------------------------------------------------------------
(* The asynchronous part: the response and the cache write *)

(* Mutant of AppendChunk: the chunk is put in front. *)
PrependChunk(acc, chunk) == chunk \o acc

(* httpResult += chunk *)
AppendChunk(acc, chunk) == acc \o chunk

(* Mutant of EndWrite: the write is issued after the checks, for a good body only. *)
EndWriteIfGood(text) ==
    LET obj == ParseJSON(text) IN
    IF obj.ok /\ ~obj.error /\ RatesPresent(obj)
    THEN [state |-> "pending", text |-> text]
    ELSE [state |-> "none", text |-> <<>>]

(* fs.writeFile(currentRatesJSON, httpResult, ...) at the top of the 'end' handler *)
EndWrite(text) == [state |-> "pending", text |-> text]

(* Mutant of EndOutcome: the error field is not checked. *)
EndOutcomeNoErrorCheck(text) ==
    LET obj == ParseJSON(text) IN
    IF ~obj.ok THEN
        [crashed |-> TRUE, calls |-> <<>>, out |-> << Msg("uncaughtSyntaxError", NoObj) >>]
    ELSE LET r == showResult(obj) IN
        [crashed |-> r.threw,
         calls |-> << [via |-> "http", obj |-> obj] >>,
         out |-> << r.line >>]

(* The rest of the 'end' handler: [crashed, out, calls].  An exception thrown *)
(* here is caught by nothing and ends the process.                            *)
EndOutcome(text) ==
    LET obj == ParseJSON(text) IN
    IF ~obj.ok THEN
        [crashed |-> TRUE, calls |-> <<>>, out |-> << Msg("uncaughtSyntaxError", NoObj) >>]
    ELSE IF obj.error THEN
        [crashed |-> FALSE, calls |-> <<>>, out |-> << Msg("remoteError", obj) >>]
    ELSE LET r == showResult(obj) IN
        [crashed |-> r.threw,
         calls |-> << [via |-> "http", obj |-> obj] >>,
         out |-> << r.line >>]

(* Sample response bodies *)
GoodRates == << AudTok(15000), EurTok(10000) >>

SnapshotText(ts, rates) == << LB, TsTok(ts), RatesOpen >> \o rates \o << RB, RB >>

Bodies ==
    { SnapshotText(10000, GoodRates),
      << LB, ErrTok(1), RB >>,
      << LB, ErrTok(1), RatesOpen >> \o GoodRates \o << RB, RB >>,
      << LB, ErrTok(0), RatesOpen >> \o GoodRates \o << RB, RB >>,
      << LB, TsTok(10000), RB >>,
      << LB, RatesOpen, AudTok(15000), RB, RB >>,
      << LB, TsTok(10000) >>,
      << >> }

(* httpCallback(response): the request connected and a response begins. *)
Connect ==
    /\ pc = "requested"
    /\ \E body \in Bodies : remaining' = body
    /\ out' = Append(out, Msg("fetching", NoObj))
    /\ httpResult' = <<>>
    /\ received' = <<>>
    /\ pc' = "receiving"
    /\ UNCHANGED <<now, cache, cache0, cred, requests, calls, parsed, write>>

(* The request emits 'error'; the script registers no listener for it. *)
RequestFails ==
    /\ pc = "requested"
    /\ out' = Append(out, Msg("uncaughtRequestError", NoObj))
    /\ pc' = "crashed"
    /\ UNCHANGED <<now, cache, cache0, cred, requests, calls, httpResult, remaining,
                   received, parsed, write>>

(* response.on('data'): the next chunk, any non-empty prefix of what remains. *)
OnData ==
    /\ pc = "receiving"
    /\ \E n \in 1..Len(remaining) :
        LET chunk == SubSeq(remaining, 1, n) IN
        /\ httpResult' = AppendChunk(httpResult, chunk)
        /\ received' = Append(received, chunk)
        /\ remaining' = SubSeq(remaining, n + 1, Len(remaining))
    /\ UNCHANGED <<pc, now, cache, cache0, cred, requests, out, calls, parsed, write>>

(* response.on('end') *)
OnEnd ==
    /\ pc = "receiving"
    /\ remaining = <<>>
    /\ write' = EndWrite(httpResult)
    /\ parsed' = [done |-> TRUE, text |-> httpResult]
    /\ LET e == EndOutcome(httpResult) IN
        /\ out' = out \o e.out
        /\ calls' = calls \o e.calls
        /\ pc' = IF e.crashed THEN "crashed" ELSE "ended"
    /\ UNCHANGED <<now, cache, cache0, cred, requests, httpResult, remaining, received>>

(* The write issued by the 'end' handler completes, or fails; its callback   *)
(* logs a failure only if the process is still alive.                        *)
WriteDone ==
    /\ write.state = "pending"
    /\ \E ok \in BOOLEAN :
        IF ok THEN
            /\ cache' = [exists |-> TRUE, text |-> write.text]
            /\ write' = [write EXCEPT !.state = "done"]
            /\ out' = out
        ELSE
            /\ cache' = cache
            /\ write' = [write EXCEPT !.state = "failed"]
            /\ out' = IF pc = "crashed" THEN out ELSE Append(out, Msg("writeError", NoObj))
    /\ UNCHANGED <<pc, now, cache0, cred, requests, calls, httpResult, remaining,
                   received, parsed>>

----------------------------------------------------------------------------
(* Initial states: the files and the clock the run finds *)

Nows == {10000000, 10000500}

Stamps == {6399, 6400, 6401, 10000, 10001}

AudOpts == { <<>> } \cup { << AudTok(n) >> : n \in {0, 15000, 16000} }

EurOpts == { <<>> } \cup { << EurTok(n) >> : n \in {0, 10000} }

EdgeRates ==
    { << AudTok(37501), EurTok(25000) >>,
      << AudTok(15001), EurTok(10000) >>,
      << AudTok(10000), EurTok(7001) >>,
      << AudTok(25000), EurTok(17501) >> }

CacheTexts ==
    { SnapshotText(ts, GoodRates) : ts \in Stamps }
    \cup { SnapshotText(10000, a \o e) : a \in AudOpts, e \in EurOpts }
    \cup { SnapshotText(10000, r) : r \in EdgeRates }
    \cup { << LB, TsTok(10000), RB >>,
           << LB, RatesOpen >> \o GoodRates \o << RB, RB >>,
           << LB, TsTok(10000) >>,
           << >> }

CacheFiles ==
    { [exists |-> FALSE, text |-> <<>>] }
    \cup { [exists |-> TRUE, text |-> t] : t \in CacheTexts }

CredFiles ==
    { [exists |-> FALSE, lead |-> 0, core |-> 0, trail |-> 0] }
    \cup { [exists |-> TRUE, lead |-> l, core |-> c, trail |-> t] :
             l \in 0..MaxPad, t \in 0..MaxPad, c \in {0, KeyLen - 1, KeyLen, KeyLen + 1} }

Init ==
    /\ pc = "start"
    /\ now \in Nows
    /\ cache \in CacheFiles
    /\ cache0 = cache
    /\ cred \in CredFiles
    /\ requests = 0
    /\ out = <<>>
    /\ calls = <<>>
    /\ httpResult = <<>>
    /\ remaining = <<>>
    /\ received = <<>>
    /\ parsed = [done |-> FALSE, text |-> <<>>]
    /\ write = NoWrite

Next ==
    \/ Main
    \/ Connect
    \/ RequestFails
    \/ OnData
    \/ OnEnd
    \/ WriteDone

Spec == Init /\ [][Next]_vars

----------------------------------------------------------------------------
(* Vocabulary of the properties, stated on the files the run started with *)

Started == pc # "start"

(* The object the initial cache file denotes (NoObj if it does not parse). *)
Obj0 == ParseJSON(cache0.text)

(* The initial cache file holds a parseable snapshot with a timestamp. *)
Snapshot0 == cache0.exists /\ Obj0.ok /\ Obj0.hasTs

(* now - timestamp * 1000 *)
Age0 == now - Obj0.timestamp * 1000

(* The object has an AUD and a EUR rate, both non-zero. *)
HasBothRates(obj) ==
    /\ obj.hasRates
    /\ obj.hasAUD /\ obj.hasEUR
    /\ obj.AUD # 0 /\ obj.EUR # 0

(* The credential file holds, once trimmed, a key of exactly KeyLen characters. *)
KeyValid == cred.exists /\ cred.core = KeyLen

Printed(t) == \E i \in DOMAIN out : out[i].t = t

SummaryCount == Cardinality({ i \in DOMAIN out : out[i].t = "summary" })

(* n is x / y rounded to the nearest 1/Scale. *)
IsRounded(n, x, y) == 2 * (n * y - x * Scale) <= y /\ 2 * (n * y - x * Scale) > -y

(* The object the 'end' handler parsed. *)
Fetched == ParseJSON(parsed.text)

(* The chunks of a sequence put end to end, first to last. *)
RECURSIVE Concat(_)
Concat(chunks) ==
    IF chunks = <<>> THEN <<>> ELSE Head(chunks) \o Concat(Tail(chunks))

----------------------------------------------------------------------------
(* C1 *)

(* C1 as stated: whenever the cache file holds a parseable snapshot (with both *)
(* rates) whose age is between 0 and 3600000 ms inclusive, no HTTP request is  *)
(* issued.                                                                     *)
C1_NoFetchUpToOneHour ==
    (Snapshot0 /\ HasBothRates(Obj0) /\ Age0 >= 0 /\ Age0 <= HourMs) => requests = 0

(* C1 amended: whenever the cache file holds a parseable snapshot with both    *)
(* rates non-zero whose age is strictly below 3600000 ms, no HTTP request is   *)
(* issued, and once the script has run the summary was printed from the cache. *)
C1_NoFetchBelowOneHour ==
    (Snapshot0 /\ HasBothRates(Obj0) /\ Age0 < HourMs) =>
        /\ requests = 0
        /\ pc \in {"start", "done"}
        /\ Started => (SummaryCount = 1 /\ out[1].obj = Obj0)

C1_Witness ==
    /\ pc = "done"
    /\ Snapshot0 /\ HasBothRates(Obj0)
    /\ Age0 = HourMs - 1000
    /\ requests = 0
    /\ Printed("summary")

----------------------------------------------------------------------------
(* C2 *)

CacheAbsentOrStale == ~cache0.exists \/ (Snapshot0 /\ Age0 > HourMs)

(* C2 as stated: when the cache file is absent or its snapshot is older than   *)
(* 3600000 ms, exactly one HTTP request has been issued once the script has    *)
(* run, whatever the credential file holds.                                    *)
C2_ExactlyOneFetch ==
    (Started /\ CacheAbsentOrStale) => requests = 1

(* C2 amended: when the cache file is absent or its snapshot is older than     *)
(* 3600000 ms, the run issues exactly one HTTP request if the credential is    *)
(* valid and none if it is not; it never issues more than one.                 *)
C2_OneFetchIfKeyValid ==
    CacheAbsentOrStale =>
        /\ requests <= 1
        /\ Started => requests = (IF KeyValid THEN 1 ELSE 0)

C2_Witness ==
    /\ Snapshot0 /\ Age0 > HourMs
    /\ KeyValid /\ cred.lead > 0
    /\ pc = "ended"
    /\ write.state = "done"
    /\ requests = 1

----------------------------------------------------------------------------
(* C3 *)

(* The script returns from the cache step: a fresh snapshot with both rates. *)
CacheHit0 == Snapshot0 /\ Age0 < HourMs /\ HasBothRates(Obj0)

(* C3: when the run reaches the credential step and the credential file is    *)
(* missing, empty once trimmed or of a trimmed length other than 32, the run  *)
(* ends with the credential error message, no HTTP request is issued, no      *)
(* cache write is issued and the cache file is unchanged.                     *)
C3_BadCredentialStopsRun ==
    (Started /\ ~CacheHit0 /\ ~KeyValid) =>
        /\ pc = "done"
        /\ out # <<>> /\ out[Len(out)] = Msg("credentialError", NoObj)
        /\ requests = 0
        /\ write = NoWrite
        /\ cache = cache0

C3_Witness ==
    /\ pc = "done"
    /\ cred.exists /\ cred.core = KeyLen + 1
    /\ ~cache0.exists
    /\ Printed("credentialError")
    /\ requests = 0

----------------------------------------------------------------------------
(* C4 *)

(* C4: when the fetched body parses to an object with a truthy error field,   *)
(* the error object is reported, the run goes on without an exception,        *)
(* showResult is not called with that object and no summary is printed.       *)
C4_ErrorPayloadShortCircuits ==
    (parsed.done /\ Fetched.ok /\ Fetched.error) =>
        /\ pc = "ended"
        /\ \E i \in DOMAIN out : out[i] = Msg("remoteError", Fetched)
        /\ \A i \in DOMAIN calls : calls[i].via # "http"
        /\ SummaryCount = 0

C4_Witness ==
    /\ parsed.done /\ Fetched.ok /\ Fetched.error
    /\ HasBothRates(Fetched)
    /\ pc = "ended"
    /\ Printed("remoteError")

----------------------------------------------------------------------------
(* C5 *)

(* C5: every call of showResult with an object that lacks rates, rates.AUD or *)
(* rates.EUR, or has a zero rate, raised "Rates missing from data!" and       *)
(* printed no summary; every summary printed is for an object with both rates *)
(* non-zero and shows two finite numbers; every call with both rates non-zero *)
(* printed its summary.                                                       *)
C5_GuardBeforeDivision ==
    /\ \A i \in DOMAIN calls :
          IF HasBothRates(calls[i].obj)
          THEN \E j \in DOMAIN out : out[j].t = "summary" /\ out[j].obj = calls[i].obj
          ELSE /\ \E j \in DOMAIN out : out[j] = Msg("ratesMissing", calls[i].obj)
               /\ ~\E j \in DOMAIN out : out[j].t = "summary" /\ out[j].obj = calls[i].obj
    /\ \A j \in DOMAIN out :
          out[j].t = "summary" =>
             /\ HasBothRates(out[j].obj)
             /\ out[j].a.kind = "num" /\ out[j].b.kind = "num"

C5_Witness ==
    /\ calls # <<>>
    /\ calls[1].obj.hasRates /\ calls[1].obj.hasAUD /\ calls[1].obj.AUD # 0
    /\ calls[1].obj.hasEUR /\ calls[1].obj.EUR = 0
    /\ out[1] = Msg("ratesMissing", calls[1].obj)

----------------------------------------------------------------------------
(* C6 *)

IsOnePointFive(obj) == HasBothRates(obj) /\ obj.AUD = 15000 /\ obj.EUR = 10000

(* C6 as stated: for rates AUD 1.5 and EUR 1.0 the summary shows 1.5000 and   *)
(* 0.6667, the first highlighted and the second not.                          *)
C6_OnePointFiveHighlighted ==
    \A j \in DOMAIN out :
        (out[j].t = "summary" /\ IsOnePointFive(out[j].obj)) =>
            /\ out[j].a.v = 15000 /\ out[j].b.v = 6667
            /\ out[j].ha /\ ~out[j].hb

(* C6 amended: for rates AUD 1.5 and EUR 1.0 the summary shows 1.5000 and     *)
(* 0.6667 and neither is highlighted, 1.5000 not being above 1.50; in every   *)
(* summary the two numbers are the quotients rounded to 4 decimal places and  *)
(* each is highlighted exactly when the rounded number is strictly above its  *)
(* threshold, 1.50 or 0.70.                                                   *)
C6_HighlightStrictlyAbove ==
    \A j \in DOMAIN out :
        out[j].t = "summary" =>
            LET o == out[j].obj IN
            /\ IsOnePointFive(o) =>
                  (out[j].a.v = 15000 /\ out[j].b.v = 6667 /\ ~out[j].ha /\ ~out[j].hb)
            /\ HasBothRates(o) =>
                  /\ IsRounded(out[j].a.v, o.AUD, o.EUR)
                  /\ IsRounded(out[j].b.v, o.EUR, o.AUD)
            /\ out[j].ha <=> out[j].a.v > 15000
            /\ out[j].hb <=> out[j].b.v > 7000

C6_Witness ==
    /\ pc = "done"
    /\ out # <<>>
    /\ out[1].t = "summary" /\ IsOnePointFive(out[1].obj)
    /\ out[1].a.v = 15000 /\ ~out[1].ha

----------------------------------------------------------------------------
(* C7 *)

CacheUnreadable0 == ~cache0.exists \/ ~Obj0.ok

(* C7: when the cache file is missing or does not parse, the condition is     *)
(* logged first, showResult is not called on cached data, and the run goes on *)
(* to the credential check: with a valid credential the request is issued,    *)
(* with an invalid one the credential error follows.                          *)
C7_UnreadableCacheIsAMiss ==
    (Started /\ CacheUnreadable0) =>
        /\ out # <<>> /\ out[1] \in {Msg("cacheMissing", NoObj), Msg("cacheError", NoObj)}
        /\ \A i \in DOMAIN calls : calls[i].via # "cache"
        /\ \A j \in DOMAIN out : out[j].t = "summary" => parsed.done
        /\ IF KeyValid THEN requests = 1 /\ pc # "done"
           ELSE requests = 0 /\ pc = "done" /\ Len(out) = 2
                /\ out[2] = Msg("credentialError", NoObj)

C7_Witness ==
    /\ cache0.exists /\ ~Obj0.ok
    /\ pc = "ended"
    /\ requests = 1
    /\ Printed("cacheError") /\ Printed("summary")

----------------------------------------------------------------------------
(* C8 *)

(* C8: while chunks are still arriving nothing has been parsed, no cache      *)
(* write has been issued and no summary printed; what is parsed and what is   *)
(* written is the concatenation of the received chunks in arrival order, with *)
(* nothing of the body left undelivered; at most one summary is printed.      *)
C8_ParseAndWriteAfterEnd ==
    /\ pc \in {"requested", "receiving"} =>
          /\ ~parsed.done
          /\ write = NoWrite
          /\ SummaryCount = 0
          /\ \A i \in DOMAIN calls : calls[i].via # "http"
    /\ httpResult = Concat(received)
    /\ parsed.done =>
          /\ remaining = <<>>
          /\ parsed.text = Concat(received)
          /\ write.text = Concat(received)
    /\ SummaryCount <= 1

C8_Witness ==
    /\ parsed.done
    /\ Len(received) >= 3
    /\ received[1] # received[2]
    /\ Printed("summary")
    /\ write.state = "done"

----------------------------------------------------------------------------
(* C9 *)

----------------------------------------------------------------------------
(* C10 *)

FreshWithoutRates0 ==
    Snapshot0 /\ Obj0.timestamp * 1000 > now - HourMs /\ ~HasBothRates(Obj0)

(* C10: when the cache file holds a parseable, fresh snapshot without both    *)
(* rates, showResult is called with it, its error is logged first, and the    *)
(* run goes on as for a cache miss: with a valid credential the request is    *)
(* issued, with an invalid one the credential error follows.                  *)
C10_FreshCacheWithoutRatesFallsThrough ==
    (Started /\ FreshWithoutRates0) =>
        /\ calls # <<>> /\ calls[1] = [via |-> "cache", obj |-> Obj0]
        /\ out # <<>> /\ out[1] = Msg("ratesMissing", Obj0)
        /\ IF KeyValid THEN requests = 1 /\ pc # "done"
           ELSE requests = 0 /\ pc = "done" /\ Len(out) = 2
                /\ out[2] = Msg("credentialError", NoObj)

C10_Witness ==
    /\ FreshWithoutRates0
    /\ Obj0.hasRates /\ ~Obj0.hasEUR
    /\ pc = "requested"
    /\ requests = 1
    /\ Printed("ratesMissing")

====
